---- MODULE Spec2Model ----
(***************************************************************************)
(* A model of go-mirror: the forwarding engine (controllers), the router   *)
(* and the server lifecycle (server).  The repository holds several        *)
(* revisions of the proxy controller; the variable build says which one is *)
(* compiled into the process.                                              *)
(*                                                                         *)
(* Strings of the program that the code inspects (paths, queries) are      *)
(* sequences of one-character strings; body bytes are strings too.         *)
(***************************************************************************)
EXTENDS Integers, Sequences, FiniteSets, TLC

(***************************************************************************)
(* Bounds of the model.                                                    *)
(***************************************************************************)
\* inbound requests accepted in one run
MaxReq == 2

ReqIds == 1..MaxReq

\* gin.Context objects: the engine's pool makes a new one when it is empty,
\* so there are as many as there can be concurrent handlers
CtxIds == 1..MaxReq

(***************************************************************************)
(* Revisions of the controller.                                            *)
(*   "clone"    server.go 284-512: Request.Clone, transport.RoundTrip      *)
(*   "create"   proxy_controller.go 1-278: createRequest, client.Do        *)
(*   "perclass" proxy_controller.go 280-612: per-class counters, deferred  *)
(*              metrics                                                    *)
(*   "single"   proxy_controller.go 614-874: one activeConns counter       *)
(***************************************************************************)
Builds == {"create", "perclass", "single"}

TracedBuilds == {"perclass", "single"}

proxyRequest == "proxy"

mirrorRequest == "mirror"

Classes == {proxyRequest, mirrorRequest}

Legs == ReqIds \X Classes

PLeg(r) == <<r, proxyRequest>>

MLeg(r) == <<r, mirrorRequest>>

\* metric names
MetricProxy == "proxy"

MetricMirror == "mirror"

MetricProxyRequest == "proxy_request"

MetricMirrorRequest == "mirror_request"

\* config.ServiceName: a non-empty string, declared outside the files at hand
ServiceName == "go-mirror"

(***************************************************************************)
(* http.Header: a function from header names to sequences of values.       *)
(***************************************************************************)
NoHeader == <<>>

HGet(h, k) == IF k \in DOMAIN h /\ Len(h[k]) > 0 THEN h[k][1] ELSE ""

HSet(h, k, v) == [n \in (DOMAIN h) \cup {k} |-> IF n = k THEN <<v>> ELSE h[n]]

HDrop(h, k) == [n \in (DOMAIN h) \ {k} |-> h[n]]

\* for k, vv := range src { dst[k] = vv }
HCopyAll(dst, src) ==
  [n \in (DOMAIN dst) \cup (DOMAIN src) |-> IF n \in DOMAIN src THEN src[n] ELSE dst[n]]

(***************************************************************************)
(* Paths.                                                                  *)
(***************************************************************************)
IsPrefix(p, s) == Len(p) <= Len(s) /\ SubSeq(s, 1, Len(p)) = p

AcmePrefix ==
  <<"/", ".", "w", "e", "l", "l", "-", "k", "n", "o", "w", "n", "/",
    "a", "c", "m", "e", "-", "c", "h", "a", "l", "l", "e", "n", "g", "e", "/">>

MetricsPrefix == <<"/", "m", "e", "t", "r", "i", "c", "s">>

PathNode == <<"/", "a", "p", "i", "/", "v", "0", "/", "n", "o", "d", "e">>

PathStreams == <<"/", "a", "p", "i", "/", "v", "0", "/", "s", "t", "r", "e", "a", "m", "s", "/", "x">>

\* the decoded form of /%00: a path holding a control character
PathCtl == <<"/", "NUL">>

\* the ASCII control characters url.Parse rejects (stringContainsCTLByte)
CtlBytes == {"NUL", "DEL"}

stringContainsCTLByte(s) == \E i \in 1..Len(s) : s[i] \in CtlBytes

\* index of the first "?" of s, 0 when there is none
RECURSIVE IndexFrom(_, _, _)
IndexFrom(s, c, i) ==
  IF i > Len(s) THEN 0 ELSE IF s[i] = c THEN i ELSE IndexFrom(s, c, i + 1)

\* url.Parse of base + s, as far as the path and the query go: nothing when
\* s holds a control character, else the part before the first "?" and the
\* part after it
ParseOk(s) == ~stringContainsCTLByte(s)

ParsePath(s) ==
  LET q == IndexFrom(s, "?", 1) IN IF q = 0 THEN s ELSE SubSeq(s, 1, q - 1)

ParseQuery(s) ==
  LET q == IndexFrom(s, "?", 1) IN IF q = 0 THEN <<>> ELSE SubSeq(s, q + 1, Len(s))

(***************************************************************************)
(* The inbound requests the callers send.                                  *)
(***************************************************************************)
Inbound ==
  << [method |-> "GET", path |-> PathNode, query |-> <<>>,
      hdr |-> [n \in {"Accept"} |-> <<"a", "b">>],
      body |-> <<>>, readable |-> TRUE],
     [method |-> "POST", path |-> PathStreams, query |-> <<"q">>,
      hdr |-> [n \in {"Content-Length", "X-Trace-ID"} |->
                 IF n = "X-Trace-ID" THEN <<"t1">> ELSE <<"2">>],
      body |-> <<"b1", "b2">>, readable |-> TRUE],
     [method |-> "PUT", path |-> PathNode, query |-> <<>>,
      hdr |-> NoHeader,
      body |-> <<"b3">>, readable |-> FALSE],
     [method |-> "DELETE", path |-> PathCtl, query |-> <<>>,
      hdr |-> NoHeader,
      body |-> <<>>, readable |-> TRUE],
     [method |-> "PATCH", path |-> PathNode, query |-> <<>>,
      hdr |-> NoHeader,
      body |-> <<>>, readable |-> TRUE],
     [method |-> "GET", path |-> MetricsPrefix, query |-> <<>>,
      hdr |-> NoHeader,
      body |-> <<>>, readable |-> TRUE],
     [method |-> "GET", path |-> AcmePrefix \o <<"t">>, query |-> <<>>,
      hdr |-> NoHeader,
      body |-> <<>>, readable |-> TRUE],
     [method |-> "OPTIONS", path |-> PathNode, query |-> <<>>,
      hdr |-> NoHeader,
      body |-> <<>>, readable |-> TRUE] >>

(***************************************************************************)
(* What an upstream does with one round trip.                              *)
(***************************************************************************)
Outcomes == {"ok", "unreadable", "err", "timeout"}

\* what client.Do returns an error for: the transport failed, the client's
\* timeout ran out, the request's context was cancelled during the round
\* trip, or was done before the request was sent
IsErr(o) == o \in {"err", "timeout", "canceled", "refused"}

\* "ok" is a 201 with a readable body, "unreadable" a 503 whose body cannot be read
UpStatus(o) == IF o = "ok" THEN 201 ELSE 503

UpHeader(o) ==
  [n \in {"Content-Type", "Set-Cookie"} |->
     IF n = "Content-Type" THEN <<"text/plain">> ELSE <<"c1", "c2">>]

UpBody(o) == <<"u1", "u2">>

\* io.ReadAll(resp.Body) succeeds
UpReadable(o) == o # "unreadable"

(***************************************************************************)
(* gin's response writer, as the caller sees it.  status is what           *)
(* WriteHeaderNow will send (200 until set), hdr and body are what reaches *)
(* the caller, written says the status line and headers are on the wire,   *)
(* aborted that the connection was dropped without a response.             *)
(***************************************************************************)
NewWriter ==
  [status |-> 200, hdr |-> NoHeader, body |-> <<>>, written |-> FALSE, aborted |-> FALSE]

\* responseWriter.WriteHeader: a status set after the headers went out is dropped
WStatus(w, code) ==
  IF code > 0 /\ w.status # code /\ ~w.written THEN [w EXCEPT !.status = code] ELSE w

\* Context.Header: Header().Set, or Del for an empty value; once the headers
\* are on the wire a change no longer reaches the caller
WHeader(w, k, v) ==
  IF w.written THEN w
  ELSE IF v = "" THEN [w EXCEPT !.hdr = HDrop(@, k)]
  ELSE [w EXCEPT !.hdr = HSet(@, k, v)]

\* render's writeContentType: only when the header is not set yet
WContentType(w, ct) ==
  IF w.written \/ ("Content-Type" \in DOMAIN w.hdr /\ Len(w.hdr["Content-Type"]) > 0)
  THEN w ELSE [w EXCEPT !.hdr = HSet(@, "Content-Type", ct)]

\* responseWriter.Write: WriteHeaderNow, then the bytes
WWrite(w, data) == [w EXCEPT !.written = TRUE, !.body = @ \o data]

bodyAllowedForStatus(code) == ~(code \in 100..199 \/ code = 204 \/ code = 304)

\* Context.Render
WRender(w, code, ct, data) ==
  LET w1 == WContentType(WStatus(w, code), ct)
  IN IF bodyAllowedForStatus(code) THEN WWrite(w1, data) ELSE [w1 EXCEPT !.written = TRUE]

JSONType == "application/json; charset=utf-8"

\* Context.JSON(code, gin.H{"error": msg})
WJSON(w, code, msg) == WRender(w, code, JSONType, <<"{error:" \o msg \o "}">>)

\* Context.Data(code, contentType, data)
WData(w, code, ct, data) == WRender(w, code, ct, data)

(***************************************************************************)
(* State.                                                                  *)
(***************************************************************************)
VARIABLES
  build,              \* the controller revision compiled in
  mirror,             \* _this.mirror != nil
  req,                \* request id -> index into Inbound, 0 before it arrives
  hpc,                \* request id -> where its handler goroutine is
  hctx,               \* request id -> the gin.Context its handler was given
  ginReq,             \* gin.Context -> the request c.Request points to (0: none yet)
  ginBusy,            \* gin.Context -> taken from the pool, handler not returned
  traceID,            \* request id -> the traceID local of proxyAndMirrorRequest
  bodyBytes,          \* request id -> the bodyBytes local
  mpc,                \* request id -> where its mirror goroutine is
  out,                \* leg -> the outbound request handed to the client
  res,                \* leg -> what the round trip returned to the leg
  resp,               \* request id -> the response writer of that request
  events,             \* leg -> the metric calls and round trip of the leg, in order
  proxyActiveConns,   \* *_this.proxyActiveConns ("perclass")
  mirrorActiveConns,  \* *_this.mirrorActiveConns ("perclass")
  activeConns,        \* *_this.activeConns ("single")
  cfg,                \* Cert.Enabled, Cert.TestMode, Proxy.TLSEnabled
  metricsErr,         \* the calls of the metrics collaborator that return an error
  proc,               \* the process: "alive", "fatal" (Fatalf), "crashed" (panic), "ended"
  runpc,              \* where Run is
  wg,                 \* the counter of Run's sync.WaitGroup
  proxyG,             \* the goroutine that serves the proxy listener
  challengeG,         \* the goroutine that serves the challenge listener
  shutdownG,          \* the goroutine that waits for the signal and calls Stop
  proxyLis,           \* the proxy listener: "none", "open", "closed"
  challengeLis,       \* the challenge listener
  stopErrs,           \* errs of Stop: the listeners whose Shutdown returned an error
  shutdownResult,     \* what Shutdown returned, per listener ("none": not yet)
  logged,             \* "server: shutdown complete" has been logged
  serverCtxDone,      \* Run's serverCtx has been cancelled
  gauges,             \* otelMetricService.gauges: gauge key -> the entry stored (0: none)
  once,               \* entry -> its sync.Once: "new", "running", "done"
  instruments,        \* gauge key -> the instruments the meter created for it
  gpc,                \* caller of RecordGauge -> where it is
  gkey,               \* caller -> gaugeKey
  gdata,              \* caller -> gaugeData, the entry LoadOrStore returned
  gcalls,             \* caller -> the calls of RecordGauge it has made
  npath,              \* the path a leg hands to RecordRequest / RecordDuration
  nlabel,             \* the call made with it and the attributes it recorded
  alias,              \* the inbound request and the outbound requests as objects
  conns               \* one class's counter, its gauge, the legs that report it

engineVars ==
  <<req, hpc, hctx, ginReq, ginBusy, traceID, bodyBytes, mpc, out,
    res, resp, events, proxyActiveConns, mirrorActiveConns, activeConns>>

runVars ==
  <<proc, runpc, wg, proxyG, challengeG, shutdownG, proxyLis, challengeLis,
    stopErrs, shutdownResult, logged, serverCtxDone>>

gaugeVars == <<gauges, once, instruments, gpc, gkey, gdata, gcalls>>

labelVars == <<npath, nlabel>>

vars == <<build, mirror, cfg, metricsErr, engineVars, runVars, gaugeVars, labelVars, alias, conns>>

\* no outbound request
NoOut ==
  [method |-> "", base |-> "", path |-> <<>>, query |-> <<>>, hdr |-> NoHeader,
   body |-> <<>>, contentLength |-> 0, ctx |-> 0]

InitEngine ==
  /\ req = [r \in ReqIds |-> 0]
  /\ hpc = [r \in ReqIds |-> "idle"]
  /\ hctx = [r \in ReqIds |-> 0]
  /\ ginReq = [g \in CtxIds |-> 0]
  /\ ginBusy = [g \in CtxIds |-> FALSE]
  /\ traceID = [r \in ReqIds |-> ""]
  /\ bodyBytes = [r \in ReqIds |-> <<>>]
  /\ mpc = [r \in ReqIds |-> "none"]
  /\ out = [l \in Legs |-> NoOut]
  /\ res = [l \in Legs |-> ""]
  /\ resp = [r \in ReqIds |-> NewWriter]
  /\ events = [l \in Legs |-> <<>>]
  /\ proxyActiveConns = 0
  /\ mirrorActiveConns = 0
  /\ activeConns = 0

In(r) == Inbound[req[r]]

\* the context of inbound request r is done: net/http derives it from the
\* server's BaseContext and cancels it when the handler returns
ReqCtxDone(r) == serverCtxDone \/ hpc[r] \in {"done", "panicked"}

\* the context an outbound request was built with is done; ctx 0 is the
\* mirror's own context (context.WithTimeout(_this.ctx, MirrorTimeout))
CtxDone(c) == c # 0 /\ ReqCtxDone(c)

(***************************************************************************)
(* Building the outbound request.                                          *)
(***************************************************************************)
\* uuid.New().String(): a value no other request has
UUID(r) == "uuid-" \o ToString(r)

\* proxyAndMirrorRequest: the X-Trace-ID header, or a fresh id
TraceOf(r, in) == IF HGet(in.hdr, "X-Trace-ID") = "" THEN UUID(r) ELSE HGet(in.hdr, "X-Trace-ID")

\* processRequest: c.Request.URL.Path, plus "?" and RawQuery when there is one
targetPath(in) == in.path \o (IF in.query # <<>> THEN <<"?">> \o in.query ELSE <<>>)

\* http.NewRequestWithContext succeeds: the method is a token the server
\* already accepted, so only url.Parse can fail
NewRequestOk(in) ==
  IF build \in TracedBuilds THEN ParseOk(targetPath(in)) ELSE TRUE

\* the request processRequest builds from inbound request in ("perclass", "single")
processRequestBuild(in, base, body, tid, ctx) ==
  [method        |-> in.method,
   base          |-> base,
   path          |-> ParsePath(targetPath(in)),
   query         |-> ParseQuery(targetPath(in)),
   hdr           |-> HSet(HCopyAll(NoHeader, in.hdr), "X-Trace-ID", tid),
   body          |-> body,
   contentLength |-> IF Len(body) > 0 THEN Len(body) ELSE 0,
   ctx           |-> ctx]

\* the request createRequest builds and handleRequest retargets ("create"):
\* originalReq.URL.String() is the inbound path and query, escaped again
createRequest(in, base, body, ctx) ==
  [method        |-> in.method,
   base          |-> base,
   path          |-> in.path,
   query         |-> in.query,
   hdr           |-> HDrop(HCopyAll(NoHeader, in.hdr), "Content-Length"),
   body          |-> body,
   contentLength |-> IF Len(body) > 0 THEN Len(body) ELSE 0,
   ctx           |-> ctx]

\* a faulty variant: the request is built from c.Request.Body after io.ReadAll
\* has drained it
OutboundDrained(in, base, body, tid, ctx) ==
  [processRequestBuild(in, base, body, tid, ctx) EXCEPT !.body = <<>>, !.contentLength = 0]

\* the outbound request of a leg: base is where it goes, in the inbound
\* request read through c.Request, ctx the context it is bound to
Outbound(in, base, body, tid, ctx) ==
  IF build \in TracedBuilds
  THEN processRequestBuild(in, base, body, tid, ctx)
  ELSE createRequest(in, base, body, ctx)

(***************************************************************************)
(* Metric calls: what a leg hands to the metrics collaborator.             *)
(***************************************************************************)
Ev(op, name, class, code) == [op |-> op, name |-> name, class |-> class, code |-> code]

\* the methods of the metrics collaborator
MetricOps == {"RecordRequest", "RecordDuration", "RecordGauge"}

\* if err := _this.metrics.<op>(...); err != nil { _this.logger.Errorw(...) }:
\* the log line of a failed call, where the error is not dropped with _ =
ErrLogged(op) == IF op \in metricsErr THEN <<Ev("Errorw", op, "", 0)>> ELSE <<>>

\* fmt.Sprintf("%dxx", code/100)
StatusClass(code) == ToString(code \div 100) \o "xx"

\* metricName of sendRequest / handleRequest
MetricName(cl) ==
  IF build = "perclass"
  THEN (IF cl = mirrorRequest THEN MetricMirror ELSE MetricProxy)
  ELSE (IF cl = mirrorRequest THEN MetricMirrorRequest ELSE MetricProxyRequest)

\* the calls made before client.Do is entered
EventsBefore(cl) ==
  CASE build = "perclass" -> <<Ev("RecordGauge", cl, "", 0), Ev("Do", "", "", 0)>>
    [] build = "single"   -> <<Ev("Do", "", "", 0)>>
    [] OTHER              -> <<Ev("RecordRequest", MetricName(cl), "", 0)>>
                             \o ErrLogged("RecordRequest") \o <<Ev("Do", "", "", 0)>>

\* "perclass": the deferred function of sendRequest; err is set by client.Do
\* and, on the primary leg, by io.ReadAll
DeferredMetrics(cl, a) ==
  LET failed == IsErr(a) \/ (cl = proxyRequest /\ ~UpReadable(a))
      code   == IF failed THEN 502 ELSE UpStatus(a)
      class  == IF failed THEN "5xx" ELSE StatusClass(UpStatus(a))
  IN << Ev("RecordRequest", MetricName(cl), "", 0),
        Ev("RecordRequest", MetricName(cl), class, code),
        Ev("RecordDuration", MetricName(cl), "", code),
        Ev("RecordGauge", cl, "", 0) >>

\* "single": sendRequest after client.Do
SingleMetrics(cl, a) ==
  IF IsErr(a) THEN <<>>
  ELSE <<Ev("RecordRequest", MetricName(cl) \o "_status", StatusClass(UpStatus(a)), UpStatus(a))>>
       \o (IF UpReadable(a) THEN <<Ev("RecordDuration", MetricName(cl), "", UpStatus(a))>> ELSE <<>>)

\* "create": handleRequest after client.Do
CreateMetrics(cl, a) ==
  IF IsErr(a) \/ ~UpReadable(a) THEN <<>>
  ELSE <<Ev("RecordDuration", MetricName(cl), StatusClass(UpStatus(a)), UpStatus(a))>>
       \o ErrLogged("RecordDuration")

\* the calls made once client.Do has returned a
EventsAfter(cl, a) ==
  CASE build = "perclass" -> DeferredMetrics(cl, a)
    [] build = "single"   -> SingleMetrics(cl, a)
    [] OTHER              -> CreateMetrics(cl, a)

(***************************************************************************)
(* Writing the primary response.                                           *)
(***************************************************************************)
Last(s) == s[Len(s)]

\* for k, vv := range resp.Header { for _, v := range vv { c.Header(k, v) } }:
\* every call replaces the values of k, so the last value of each name stays
HeaderLoop(w, h) ==
  LET set == {k \in DOMAIN h : Len(h[k]) > 0 /\ Last(h[k]) # ""}
      del == {k \in DOMAIN h : Len(h[k]) > 0 /\ Last(h[k]) = ""}
  IN IF w.written THEN w
     ELSE [w EXCEPT !.hdr = [n \in ((DOMAIN @) \ del) \cup set |->
                               IF n \in set THEN <<Last(h[n])>> ELSE @[n]]]

\* the headers the leg adds after the upstream's
Injected(w, tid) ==
  CASE build = "perclass" \/ build = "single" ->
         WHeader(WHeader(w, "X-Proxied-By", ServiceName), "X-Trace-ID", tid)
    [] OTHER -> WHeader(w, "X-Proxied-By", ServiceName)

\* a faulty variant: a failed RecordRequest is escalated to the caller
sendRequestWriteMetricsErr(w, cl, a, tid) ==
  IF cl = mirrorRequest THEN w
  ELSE IF "RecordRequest" \in metricsErr THEN WJSON(w, 500, "metrics error")
  ELSE IF IsErr(a) THEN WJSON(w, 502, "proxy error")
  ELSE IF ~UpReadable(a) THEN WJSON(w, 500, "failed to read response")
  ELSE WData(Injected(HeaderLoop(w, UpHeader(a)), tid),
             UpStatus(a), HGet(UpHeader(a), "Content-Type"), UpBody(a))

\* a faulty variant: the error response is written whatever the class of the leg
sendRequestWriteAnyClass(w, cl, a, tid) ==
  IF IsErr(a) THEN WJSON(w, 502, "proxy error")
  ELSE IF ~UpReadable(a) THEN WJSON(w, 500, "failed to read response")
  ELSE IF cl = mirrorRequest THEN w
  ELSE WData(Injected(HeaderLoop(w, UpHeader(a)), tid),
             UpStatus(a), HGet(UpHeader(a), "Content-Type"), UpBody(a))

\* what sendRequest / handleRequest writes to the gin context of the leg once
\* client.Do has returned a: w is the writer before, the result the writer after
sendRequestWrite(w, cl, a, tid) ==
  IF IsErr(a)
  THEN (IF cl = proxyRequest THEN WJSON(w, 502, "proxy error") ELSE w)
  ELSE IF cl = mirrorRequest THEN w
  ELSE IF ~UpReadable(a) THEN WJSON(w, 500, "failed to read response")
  ELSE WData(Injected(HeaderLoop(w, UpHeader(a)), tid),
             UpStatus(a), HGet(UpHeader(a), "Content-Type"), UpBody(a))

(***************************************************************************)
(* Connection accounting.                                                  *)
(***************************************************************************)
\* a faulty variant: the counter is stored, not added to
ConnsIncStore(c) == 1

\* atomic.AddInt64(connsCounter, 1) before the round trip
ConnsInc(c) == c + 1

\* a faulty variant: the decrement sits behind the error return
ConnsDecOnSuccess(c, a) == IF IsErr(a) THEN c ELSE c - 1

\* the decrement after the round trip returned a: deferred in "perclass",
\* the statement after client.Do in "single"
ConnsDec(c, a) == c - 1

\* connsCounter of a leg of class cl is the counter named which
Counts(cl, which) ==
  CASE which = "proxy"  -> build = "perclass" /\ cl = proxyRequest
    [] which = "mirror" -> build = "perclass" /\ cl = mirrorRequest
    [] OTHER            -> build = "single"

\* a leg of class cl enters its round trip
CountEnter(cl) ==
  /\ proxyActiveConns' =
       IF Counts(cl, "proxy") THEN ConnsInc(proxyActiveConns) ELSE proxyActiveConns
  /\ mirrorActiveConns' =
       IF Counts(cl, "mirror") THEN ConnsInc(mirrorActiveConns) ELSE mirrorActiveConns
  /\ activeConns' = IF Counts(cl, "single") THEN ConnsInc(activeConns) ELSE activeConns

\* the round trip of a leg of class cl has returned a
CountLeave(cl, a) ==
  /\ proxyActiveConns' =
       IF Counts(cl, "proxy") THEN ConnsDec(proxyActiveConns, a) ELSE proxyActiveConns
  /\ mirrorActiveConns' =
       IF Counts(cl, "mirror") THEN ConnsDec(mirrorActiveConns, a) ELSE mirrorActiveConns
  /\ activeConns' = IF Counts(cl, "single") THEN ConnsDec(activeConns, a) ELSE activeConns

(***************************************************************************)
(* The handler goroutine of one inbound request.                           *)
(***************************************************************************)
Free == {g \in CtxIds : ~ginBusy[g]}

Fresh == {g \in Free : ginReq[g] = 0}

\* engine.pool.Get(): a context put back earlier, or a new one
Pooled == (Free \ Fresh) \cup {g \in Fresh : \A h \in Fresh : g <= h}

\* the round trip of a leg is entered: client.Do gives up at once when the
\* context of the request is already done
Entered(ctx) == IF CtxDone(ctx) THEN "refused" ELSE "wait"

engineFrame == UNCHANGED <<build, mirror, cfg, metricsErr, runVars, gaugeVars, labelVars, alias, conns>>

\* net/http accepts request r and gin's ServeHTTP binds a context to it:
\* c.writermem.reset(w); c.Request = req; c.reset()
Accept(r) ==
  /\ proc = "alive"
  /\ proxyLis = "open"
  /\ hpc[r] = "idle"
  /\ \A q \in ReqIds : q < r => hpc[q] # "idle"
  /\ \E i \in 1..Len(Inbound), g \in Pooled :
       /\ req' = [req EXCEPT ![r] = i]
       /\ hctx' = [hctx EXCEPT ![r] = g]
       /\ ginReq' = [ginReq EXCEPT ![g] = r]
       /\ ginBusy' = [ginBusy EXCEPT ![g] = TRUE]
  /\ hpc' = [hpc EXCEPT ![r] = "route"]
  /\ resp' = [resp EXCEPT ![r] = NewWriter]
  /\ UNCHANGED <<traceID, bodyBytes, mpc, out, res, events,
                 proxyActiveConns, mirrorActiveConns, activeConns>>
  /\ engineFrame

\* a faulty variant: the method is dispatched before the reserved paths are
\* looked at
RouteMethodFirst(in) ==
  IF in.method \in {"GET", "POST", "PUT", "DELETE"} THEN "proxy"
  ELSE IF IsPrefix(AcmePrefix, in.path) THEN "challenge"
  ELSE IF IsPrefix(MetricsPrefix, in.path) THEN "metrics"
  ELSE "notAllowed"

\* the route handleProxy takes for inbound request in
Route(in) ==
  IF IsPrefix(AcmePrefix, in.path) THEN "challenge"
  ELSE IF IsPrefix(MetricsPrefix, in.path) THEN "metrics"
  ELSE IF in.method \in {"GET", "POST", "PUT", "DELETE"} THEN "proxy"
  ELSE "notAllowed"

\* serverImpl.certManager: NewServer never assigns the field
certManagerSet == FALSE

\* a faulty variant: the error of io.ReadAll is not looked at
ReadAllErrIgnored(in) == TRUE

\* io.ReadAll(c.Request.Body) returns no error
ReadAllOk(in) == in.readable

\* proxyAndMirrorRequest / proxyRequest up to the point where the primary
\* round trip is entered
\* a faulty variant: the mirror leg is started for a successful primary only
SpawnsMirrorOnSuccess(a) == mirror /\ a = "ok"

\* if _this.mirror != nil { go ... }, once the primary leg has returned with
\* a ("" when its request could not be created)
SpawnsMirror(a) == mirror

Forward(r) ==
  LET in  == In(r)
      tid == IF build \in TracedBuilds THEN TraceOf(r, in) ELSE ""
      o   == Outbound(in, "target", in.body, tid, r)
  IN /\ traceID' = [traceID EXCEPT ![r] = tid]
     /\ IF ~ReadAllOk(in)
        THEN \* io.ReadAll failed: 500, nothing is forwarded
             /\ resp' = [resp EXCEPT ![r] = WJSON(@, 500, "failed to read request")]
             /\ hpc' = [hpc EXCEPT ![r] = "exit"]
             /\ UNCHANGED <<bodyBytes, mpc, out, events,
                            proxyActiveConns, mirrorActiveConns, activeConns>>
        ELSE IF ~NewRequestOk(in)
        THEN \* processRequest: 500; proxyAndMirrorRequest goes on to the mirror
             /\ resp' = [resp EXCEPT ![r] = WJSON(@, 500, "failed to create request")]
             /\ bodyBytes' = [bodyBytes EXCEPT ![r] = in.body]
             /\ mpc' = [mpc EXCEPT ![r] = IF SpawnsMirror("") THEN "spawned" ELSE @]
             /\ hpc' = [hpc EXCEPT ![r] = "exit"]
             /\ UNCHANGED <<out, events, proxyActiveConns, mirrorActiveConns, activeConns>>
        ELSE /\ bodyBytes' = [bodyBytes EXCEPT ![r] = in.body]
             /\ out' = [out EXCEPT ![PLeg(r)] = o]
             /\ events' = [events EXCEPT ![PLeg(r)] = @ \o EventsBefore(proxyRequest)]
             /\ CountEnter(proxyRequest)
             /\ hpc' = [hpc EXCEPT ![r] = Entered(r)]
             /\ UNCHANGED <<resp, mpc>>

\* handleProxy, with the controller method it calls
handleProxy(r) ==
  /\ proc = "alive"
  /\ hpc[r] = "route"
  /\ LET route == Route(In(r))
     IN CASE route = "challenge" /\ ~certManagerSet ->
               \* a method call on a nil interface panics; nothing recovers it
               \* below net/http, which drops the connection
               /\ hpc' = [hpc EXCEPT ![r] = "panicked"]
               /\ resp' = [resp EXCEPT ![r] = [@ EXCEPT !.aborted = TRUE]]
               /\ UNCHANGED <<traceID, bodyBytes, mpc, out, events,
                              proxyActiveConns, mirrorActiveConns, activeConns>>
          [] route = "challenge" /\ certManagerSet ->
               /\ hpc' = [hpc EXCEPT ![r] = "exit"]
               /\ resp' = [resp EXCEPT ![r] = WData(@, 200, "text/plain", <<"challenge">>)]
               /\ UNCHANGED <<traceID, bodyBytes, mpc, out, events,
                              proxyActiveConns, mirrorActiveConns, activeConns>>
          [] route = "metrics" ->
               /\ hpc' = [hpc EXCEPT ![r] = "exit"]
               /\ resp' = [resp EXCEPT ![r] = WData(@, 200, "text/plain", <<"scrape">>)]
               /\ UNCHANGED <<traceID, bodyBytes, mpc, out, events,
                              proxyActiveConns, mirrorActiveConns, activeConns>>
          [] route = "notAllowed" ->
               /\ hpc' = [hpc EXCEPT ![r] = "exit"]
               /\ resp' = [resp EXCEPT ![r] = WStatus(@, 405)]
               /\ UNCHANGED <<traceID, bodyBytes, mpc, out, events,
                              proxyActiveConns, mirrorActiveConns, activeConns>>
          [] OTHER -> Forward(r)
  /\ UNCHANGED <<req, hctx, ginReq, ginBusy, res>>
  /\ engineFrame

\* what the round trip of leg l can return: what the upstream did, or the
\* cancellation of the context the request is bound to
Returns(l, pc) ==
  IF pc = "refused" THEN {"refused"}
  ELSE Outcomes \cup (IF CtxDone(out[l].ctx) THEN {"canceled"} ELSE {})

\* the primary round trip returns and sendRequest / handleRequest runs to its
\* end; back in proxyAndMirrorRequest the mirror goroutine is started
sendRequestReturn(r) ==
  /\ proc = "alive"
  /\ hpc[r] \in {"wait", "refused"}
  /\ \E a \in Returns(PLeg(r), hpc[r]) :
       /\ res' = [res EXCEPT ![PLeg(r)] = a]
       /\ resp' = [resp EXCEPT ![r] = sendRequestWrite(@, proxyRequest, a, traceID[r])]
       /\ events' = [events EXCEPT ![PLeg(r)] = @ \o EventsAfter(proxyRequest, a)]
       /\ CountLeave(proxyRequest, a)
       /\ mpc' = [mpc EXCEPT ![r] = IF SpawnsMirror(a) THEN "spawned" ELSE @]
  /\ hpc' = [hpc EXCEPT ![r] = "exit"]
  /\ UNCHANGED <<req, hctx, ginReq, ginBusy, traceID, bodyBytes, out>>
  /\ engineFrame

\* a faulty variant: the handler joins the mirror goroutine it started
MayReturnJoined(r) == hpc[r] = "exit" /\ mpc[r] \in {"none", "done"}

\* the handler has nothing left to do: the go statement does not wait
MayReturn(r) == hpc[r] = "exit"

\* the handler returns: gin sends the status line if nothing did, puts the
\* context back into the pool, and net/http cancels the request's context
handlerReturn(r) ==
  /\ proc = "alive"
  /\ MayReturn(r)
  /\ hpc' = [hpc EXCEPT ![r] = "done"]
  /\ resp' = [resp EXCEPT ![r] = [@ EXCEPT !.written = TRUE]]
  /\ ginBusy' = [ginBusy EXCEPT ![hctx[r]] = FALSE]
  /\ UNCHANGED <<req, hctx, ginReq, traceID, bodyBytes, mpc, out, res, events,
                 proxyActiveConns, mirrorActiveConns, activeConns>>
  /\ engineFrame

(***************************************************************************)
(* The mirror goroutine of one inbound request.                            *)
(***************************************************************************)
\* what c.Request holds when the goroutine of request r reads it: the request
\* the context was last bound to
Current(r) == ginReq[hctx[r]]

\* the context the mirror request is bound to: c.Request.Context() in
\* "perclass" and "single", context.WithTimeout(_this.ctx, MirrorTimeout) (0)
\* in "create"
MirrorCtx(r) == IF build \in TracedBuilds THEN Current(r) ELSE 0

\* the goroutine starts: processRequest (or createRequest and handleRequest)
\* up to the point where the mirror round trip is entered
mirrorStart(r) ==
  /\ proc = "alive"
  /\ mpc[r] = "spawned"
  /\ LET in == In(Current(r))
         o  == Outbound(in, "mirror", bodyBytes[r], traceID[r], MirrorCtx(r))
     IN IF ~NewRequestOk(in)
        THEN /\ mpc' = [mpc EXCEPT ![r] = "failed"]
             /\ UNCHANGED <<out, events, proxyActiveConns, mirrorActiveConns, activeConns>>
        ELSE /\ out' = [out EXCEPT ![MLeg(r)] = o]
             /\ events' = [events EXCEPT ![MLeg(r)] = @ \o EventsBefore(mirrorRequest)]
             /\ CountEnter(mirrorRequest)
             /\ mpc' = [mpc EXCEPT ![r] = Entered(o.ctx)]
  /\ UNCHANGED <<req, hpc, hctx, ginReq, ginBusy, traceID, bodyBytes, res, resp>>
  /\ engineFrame

\* a write through the gin context of request r reaches the requests the
\* context is bound to now, as long as that handler has not returned
Through(r) ==
  {q \in ReqIds : ginBusy[hctx[r]] /\ ginReq[hctx[r]] = q /\ hpc[q] # "panicked"}

\* processRequest of the mirror leg after http.NewRequestWithContext failed:
\* the error is logged and c.JSON(500, ...) is called on the gin context
mirrorCreateFailed(r) ==
  /\ proc = "alive"
  /\ mpc[r] = "failed"
  /\ mpc' = [mpc EXCEPT ![r] = "done"]
  /\ resp' = [q \in ReqIds |->
                IF q \in Through(r) THEN WJSON(resp[q], 500, "failed to create request")
                ELSE resp[q]]
  /\ UNCHANGED <<req, hpc, hctx, ginReq, ginBusy, traceID, bodyBytes, out, res,
                 events, proxyActiveConns, mirrorActiveConns, activeConns>>
  /\ engineFrame

\* the mirror round trip returns and sendRequest / handleRequest runs to its end
mirrorReturn(r) ==
  /\ proc = "alive"
  /\ mpc[r] \in {"wait", "refused"}
  /\ \E a \in Returns(MLeg(r), mpc[r]) :
       /\ res' = [res EXCEPT ![MLeg(r)] = a]
       /\ resp' = [q \in ReqIds |->
                     IF q \in Through(r)
                     THEN sendRequestWrite(resp[q], mirrorRequest, a, traceID[r])
                     ELSE resp[q]]
       /\ events' = [events EXCEPT ![MLeg(r)] = @ \o EventsAfter(mirrorRequest, a)]
       /\ CountLeave(mirrorRequest, a)
  /\ mpc' = [mpc EXCEPT ![r] = "done"]
  /\ UNCHANGED <<req, hpc, hctx, ginReq, ginBusy, traceID, bodyBytes, out>>
  /\ engineFrame

(***************************************************************************)
(* The server lifecycle: Run, its three goroutines, Stop.                  *)
(***************************************************************************)
Configs == [certEnabled : BOOLEAN, testMode : BOOLEAN, tlsEnabled : BOOLEAN]

\* NewACMECertManager returns nil unless Cert.Enabled
certManagerGiven == cfg.certEnabled

\* NewServer: challengeServer (and the proxy's TLSConfig) exist only if
\* cfg.Proxy.TLSEnabled && certManager != nil
challengeServerSet == cfg.tlsEnabled /\ certManagerGiven

\* wg.Add(3)
WgAdd == 3

\* the listeners a server can own
Listeners == {"challenge", "proxy"}

\* Shutdown has been called on no listener
NoShutdown == [l \in Listeners |-> "none"]

InitRun ==
  /\ proc = "alive"
  /\ runpc = "init"
  /\ wg = 0
  /\ proxyG = "none"
  /\ challengeG = "none"
  /\ shutdownG = "none"
  /\ proxyLis = "none"
  /\ challengeLis = "none"
  /\ stopErrs = {}
  /\ shutdownResult = NoShutdown
  /\ logged = FALSE
  /\ serverCtxDone = FALSE

runFrame == UNCHANGED <<build, mirror, cfg, metricsErr, engineVars, gaugeVars, labelVars, alias, conns>>

\* a faulty variant: the shutdown goroutine does not block on <-quit
RunWithoutWait ==
  /\ proc = "alive"
  /\ runpc = "init"
  /\ runpc' = "waiting"
  /\ wg' = wg + WgAdd
  /\ proxyG' = "start"
  /\ challengeG' = "start"
  /\ shutdownG' = "stop"
  /\ serverCtxDone' = TRUE
  /\ UNCHANGED <<proc, proxyLis, challengeLis, stopErrs, shutdownResult, logged>>
  /\ runFrame

\* Run up to wg.Wait(): the server context, the wait group, the goroutines
Run ==
  /\ proc = "alive"
  /\ runpc = "init"
  /\ runpc' = "waiting"
  /\ wg' = wg + WgAdd
  /\ proxyG' = "start"
  /\ challengeG' = "start"
  /\ shutdownG' = "start"
  /\ UNCHANGED <<proc, proxyLis, challengeLis, stopErrs, shutdownResult, logged, serverCtxDone>>
  /\ runFrame

\* the proxy goroutine: an error of ListenAndServe(TLS) other than
\* ErrServerClosed reaches Fatalf, except in the TestMode branch, where the
\* error is assigned to the err that crt, err := ... declared
listenErrFatal == cfg.certEnabled \/ ~cfg.testMode

\* ListenAndServeTLS("", "") has a certificate to serve only through the
\* TLSConfig NewServer sets
canListen == cfg.certEnabled => challengeServerSet

\* the proxy goroutine calls ListenAndServe / ListenAndServeTLS
proxyListen ==
  /\ proc = "alive"
  /\ proxyG = "start"
  /\ IF proxyLis = "closed"
     THEN \* Shutdown came first: ErrServerClosed, the goroutine ends
          /\ proxyG' = "exited"
          /\ wg' = wg - 1
          /\ UNCHANGED <<proc, proxyLis>>
     ELSE \E ok \in {b \in BOOLEAN : b => canListen} :
            IF ok
            THEN /\ proxyG' = "serving"
                 /\ proxyLis' = "open"
                 /\ UNCHANGED <<proc, wg>>
            ELSE IF listenErrFatal
            THEN /\ proc' = "fatal"
                 /\ UNCHANGED <<proxyG, proxyLis, wg>>
            ELSE /\ proxyG' = "exited"
                 /\ wg' = wg - 1
                 /\ UNCHANGED <<proc, proxyLis>>
  /\ UNCHANGED <<runpc, challengeG, shutdownG, challengeLis, stopErrs, shutdownResult, logged, serverCtxDone>>
  /\ runFrame

\* ListenAndServe returns ErrServerClosed once Shutdown closed the listener
proxyServeReturn ==
  /\ proc = "alive"
  /\ proxyG = "serving"
  /\ proxyLis = "closed"
  /\ proxyG' = "exited"
  /\ wg' = wg - 1
  /\ UNCHANGED <<proc, runpc, challengeG, shutdownG, proxyLis, challengeLis, stopErrs, shutdownResult,
                 logged, serverCtxDone>>
  /\ runFrame

\* the challenge goroutine
challengeListen ==
  /\ proc = "alive"
  /\ challengeG = "start"
  /\ IF ~cfg.certEnabled
     THEN /\ challengeG' = "exited"
          /\ wg' = wg - 1
          /\ UNCHANGED <<proc, challengeLis>>
     ELSE IF ~challengeServerSet
     THEN \* _this.challengeServer is nil: the goroutine panics, the process dies
          /\ proc' = "crashed"
          /\ UNCHANGED <<challengeG, challengeLis, wg>>
     ELSE IF challengeLis = "closed"
     THEN /\ challengeG' = "exited"
          /\ wg' = wg - 1
          /\ UNCHANGED <<proc, challengeLis>>
     ELSE \E ok \in BOOLEAN :
            IF ok
            THEN /\ challengeG' = "serving"
                 /\ challengeLis' = "open"
                 /\ UNCHANGED <<proc, wg>>
            ELSE \* the error is logged with Errorw
                 /\ challengeG' = "exited"
                 /\ wg' = wg - 1
                 /\ UNCHANGED <<proc, challengeLis>>
  /\ UNCHANGED <<runpc, proxyG, shutdownG, proxyLis, stopErrs, shutdownResult, logged, serverCtxDone>>
  /\ runFrame

challengeServeReturn ==
  /\ proc = "alive"
  /\ challengeG = "serving"
  /\ challengeLis = "closed"
  /\ challengeG' = "exited"
  /\ wg' = wg - 1
  /\ UNCHANGED <<proc, runpc, proxyG, shutdownG, proxyLis, challengeLis, stopErrs, shutdownResult,
                 logged, serverCtxDone>>
  /\ runFrame

\* one of SIGTERM, SIGINT, SIGQUIT, SIGHUP arrives: <-quit returns and the
\* shutdown goroutine calls serverCtxCancel()
Signal ==
  /\ proc = "alive"
  /\ shutdownG = "start"
  /\ shutdownG' = "stop"
  /\ serverCtxDone' = TRUE
  /\ UNCHANGED <<proc, runpc, wg, proxyG, challengeG, proxyLis, challengeLis, stopErrs, shutdownResult, logged>>
  /\ runFrame

\* a faulty variant: Stop keeps one error, the last one
StopCollectLast(errs, l, err) == IF err THEN {l} ELSE errs

\* errs = append(errs, ...) of Stop, when Shutdown returned an error
StopCollect(errs, l, err) == IF err THEN errs \cup {l} ELSE errs

\* Stop: challengeServer.Shutdown(ctx) is called, when there is a challenge
\* server; it closes the listener and waits
stopChallenge ==
  /\ proc = "alive"
  /\ shutdownG = "stop"
  /\ IF challengeServerSet
     THEN /\ challengeLis' = "closed"
          /\ shutdownG' = "challengeDraining"
     ELSE /\ shutdownG' = "stopProxy"
          /\ UNCHANGED challengeLis
  /\ UNCHANGED <<proc, runpc, wg, proxyG, challengeG, proxyLis, stopErrs, shutdownResult,
                 logged, serverCtxDone>>
  /\ runFrame

\* challengeServer.Shutdown(ctx) returns, nil or the error of ctx; Stop goes
\* on to the proxy server in both cases
stopChallengeReturn ==
  /\ proc = "alive"
  /\ shutdownG = "challengeDraining"
  /\ shutdownG' = "stopProxy"
  /\ \E err \in BOOLEAN :
       /\ shutdownResult' = [shutdownResult EXCEPT !["challenge"] = IF err THEN "err" ELSE "nil"]
       /\ stopErrs' = StopCollect(stopErrs, "challenge", err)
  /\ UNCHANGED <<proc, runpc, wg, proxyG, challengeG, proxyLis, challengeLis, logged,
                 serverCtxDone>>
  /\ runFrame

\* Stop: proxyServer.Shutdown(ctx) closes the listener and waits
stopProxy ==
  /\ proc = "alive"
  /\ shutdownG = "stopProxy"
  /\ shutdownG' = "draining"
  /\ proxyLis' = "closed"
  /\ UNCHANGED <<proc, runpc, wg, proxyG, challengeG, challengeLis, stopErrs, shutdownResult, logged,
                 serverCtxDone>>
  /\ runFrame

\* a handler of the proxy server has not returned
InHandler(r) == hpc[r] \in {"route", "wait", "refused", "exit"}

\* a faulty variant: Stop drops the errors it collected
StopErrDropped(errs) == FALSE

\* what Stop returns for the errors it collected
StopErr(errs) == errs # {}

\* proxyServer.Shutdown returns: nil once no handler is left, an error when
\* the 5 seconds of ctx ran out first; then Stop returns, and the goroutine
\* ends in Fatalf or logs the completion
stopReturn ==
  /\ proc = "alive"
  /\ shutdownG = "draining"
  /\ \E err \in {b \in BOOLEAN : (~b) <=> (\A r \in ReqIds : ~InHandler(r))} :
       LET errs == StopCollect(stopErrs, "proxy", err)
       IN /\ stopErrs' = errs
          /\ shutdownResult' = [shutdownResult EXCEPT !["proxy"] = IF err THEN "err" ELSE "nil"]
          /\ IF StopErr(errs)
             THEN /\ proc' = "fatal"
                  /\ UNCHANGED <<shutdownG, logged, wg>>
             ELSE /\ logged' = TRUE
                  /\ shutdownG' = "exited"
                  /\ wg' = wg - 1
                  /\ UNCHANGED proc
  /\ UNCHANGED <<runpc, proxyG, challengeG, proxyLis, challengeLis, serverCtxDone>>
  /\ runFrame

\* wg.Wait() returns, Run returns, and main returns with it
RunReturn ==
  /\ proc = "alive"
  /\ runpc = "waiting"
  /\ wg = 0
  /\ runpc' = "returned"
  /\ proc' = "ended"
  /\ UNCHANGED <<wg, proxyG, challengeG, shutdownG, proxyLis, challengeLis, stopErrs, shutdownResult,
                 logged, serverCtxDone>>
  /\ runFrame

(***************************************************************************)
(* RecordGauge of the metrics collaborator, called by concurrent           *)
(* goroutines.                                                             *)
(***************************************************************************)
MaxCallers == 3

MaxCalls == 2

Callers == 1..MaxCallers

\* gaugeKey: the service name and the name of the counter's gauge
GaugeKeys == {ServiceName \o "_" \o "proxy_connections", ServiceName \o "_" \o "mirror_connections"}

\* the &struct{gauge, value, once}{} a call allocates: one per caller and call
Entries == 1..(MaxCallers * MaxCalls)

NewEntry(c, n) == (c - 1) * MaxCalls + n

InitGauge ==
  /\ gauges = [k \in GaugeKeys |-> 0]
  /\ once = [e \in Entries |-> "new"]
  /\ instruments = [k \in GaugeKeys |-> 0]
  /\ gpc = [c \in Callers |-> "idle"]
  /\ gkey = [c \in Callers |-> ""]
  /\ gdata = [c \in Callers |-> 0]
  /\ gcalls = [c \in Callers |-> 0]

gaugeFrame == UNCHANGED <<build, mirror, cfg, metricsErr, engineVars, runVars, labelVars, alias, conns>>

\* a faulty variant: the entry is stored whether or not the key has one
StoreFresh(reg, k, fresh) == fresh

\* sync.Map.LoadOrStore: the entry of k if there is one, else fresh, which
\* becomes the entry of k; one atomic step
LoadOrStore(reg, k, fresh) == IF reg[k] # 0 THEN reg[k] ELSE fresh

\* RecordGauge up to gaugeData := gaugeInterface.(...)
RecordGaugeLoad(c, k) ==
  /\ gpc[c] = "idle"
  /\ gcalls[c] < MaxCalls
  /\ LET e == LoadOrStore(gauges, k, NewEntry(c, gcalls[c] + 1))
     IN /\ gauges' = [gauges EXCEPT ![k] = e]
        /\ gdata' = [gdata EXCEPT ![c] = e]
  /\ gkey' = [gkey EXCEPT ![c] = k]
  /\ gcalls' = [gcalls EXCEPT ![c] = @ + 1]
  /\ gpc' = [gpc EXCEPT ![c] = "once"]
  /\ UNCHANGED <<once, instruments>>
  /\ gaugeFrame

\* gaugeData.once.Do(f): the first caller runs f, a caller that arrives while
\* f runs waits for it, a later one goes on
OnceDo(c) ==
  /\ gpc[c] = "once"
  /\ once[gdata[c]] # "running"
  /\ IF once[gdata[c]] = "new"
     THEN /\ once' = [once EXCEPT ![gdata[c]] = "running"]
          /\ gpc' = [gpc EXCEPT ![c] = "create"]
     ELSE /\ gpc' = [gpc EXCEPT ![c] = "store"]
          /\ UNCHANGED once
  /\ UNCHANGED <<gauges, instruments, gkey, gdata, gcalls>>
  /\ gaugeFrame

\* f: _this.meter.Float64ObservableGauge(gaugeKey, ...); on an error the
\* entry keeps a nil gauge and the Once is spent all the same
CreateGauge(c) ==
  /\ gpc[c] = "create"
  /\ \E ok \in BOOLEAN :
       instruments' = [instruments EXCEPT ![gkey[c]] = IF ok THEN @ + 1 ELSE @]
  /\ once' = [once EXCEPT ![gdata[c]] = "done"]
  /\ gpc' = [gpc EXCEPT ![c] = "store"]
  /\ UNCHANGED <<gauges, gkey, gdata, gcalls>>
  /\ gaugeFrame

\* gaugeData.value.Store(value); return nil
StoreValue(c) ==
  /\ gpc[c] = "store"
  /\ gpc' = [gpc EXCEPT ![c] = "idle"]
  /\ UNCHANGED <<gauges, once, instruments, gkey, gdata, gcalls>>
  /\ gaugeFrame

(***************************************************************************)
(* The path label of RecordRequest and RecordDuration.                     *)
(***************************************************************************)
ApiPrefix == <<"/", "a", "p", "i", "/", "v", "0", "/">>

SegNode == <<"n", "o", "d", "e">>

SegStreams == <<"s", "t", "r", "e", "a", "m", "s">>

\* strings.TrimPrefix
TrimPrefix(s, p) == IF IsPrefix(p, s) THEN SubSeq(s, Len(p) + 1, Len(s)) ELSE s

RECURSIVE Split(_, _)
\* strings.Split(s, sep) for a one-byte sep: never an empty slice
Split(s, sep) ==
  LET i == IndexFrom(s, sep, 1)
  IN IF i = 0 THEN <<s>> ELSE <<SubSeq(s, 1, i - 1)>> \o Split(SubSeq(s, i + 1, Len(s)), sep)

normalizePath(path) ==
  LET segments == Split(TrimPrefix(path, ApiPrefix), "/")
  IN IF Len(segments) = 0 THEN <<"/">>
     ELSE CASE segments[1] = SegNode    -> <<"/">> \o SegNode
            [] segments[1] = SegStreams -> <<"/">> \o SegStreams
            [] OTHER                    -> <<"/", "o", "t", "h", "e", "r">>

\* attribute.String(key, val) and the like
Attr(key, val) == [key |-> key, val |-> val]

\* a faulty variant: the attributes are recorded as the caller passed them
RecordDurationRaw(attrs) == attrs

\* RecordDuration: the attributes it records, a "path" attribute normalized
RecordDurationAttrs(attrs) ==
  [i \in DOMAIN attrs |->
     IF attrs[i].key = "path" THEN Attr("path", normalizePath(attrs[i].val)) ELSE attrs[i]]

\* RecordRequest: the attributes it records, its own before the caller's
RecordRequestAttrs(method, path, attrs) ==
  <<Attr("method", method), Attr("path", normalizePath(path))>> \o attrs

\* the values an attribute list records under key: attribute.NewSet keeps
\* the last value of a repeated key
AttrValue(attrs, key) ==
  LET at == {i \in DOMAIN attrs : attrs[i].key = key}
  IN {attrs[i].val : i \in {j \in at : \A k \in at : k <= j}}

\* the words the paths are made of
PathWords == {<<"/">>, SegNode, SegStreams, <<"x">>}

\* the paths a leg can pass: up to three words, after /api/v0/ or not
LabelPaths ==
  LET w0 == PathWords \cup {<<>>}
  IN {pre \o a \o b \o c : pre \in {<<>>, ApiPrefix}, a \in w0, b \in w0, c \in w0}

NoLabel == [op |-> "", attrs |-> <<>>]

InitLabel ==
  /\ npath = <<>>
  /\ nlabel = NoLabel

labelFrame == UNCHANGED <<build, mirror, cfg, metricsErr, engineVars, runVars, gaugeVars, alias, conns>>

\* the deferred function of sendRequest calls RecordRequest with the path of
\* the outbound request and the status attributes
RecordRequest ==
  /\ nlabel' = [op |-> "RecordRequest",
                attrs |-> RecordRequestAttrs("GET", npath,
                            <<Attr("status_class", "2xx"), Attr("status_code", 201),
                              Attr("method", "GET")>>)]
  /\ UNCHANGED npath
  /\ labelFrame

\* the deferred function of sendRequest calls RecordDuration with the path
\* of the outbound request as an attribute
RecordDuration ==
  /\ nlabel' = [op |-> "RecordDuration",
                attrs |-> RecordDurationAttrs(
                            <<Attr("method", "GET"), Attr("path", npath),
                              Attr("status_code", 201)>>)]
  /\ UNCHANGED npath
  /\ labelFrame

(***************************************************************************)
(* Requests as objects: a header map holds, per name, a reference to a     *)
(* slice of values; two maps alias when they hold the same reference.      *)
(***************************************************************************)
\* the inbound request, the primary and the mirror outbound request
Objs == {"in", "p", "m"}

\* the headers an inbound request can carry
AliasInputs ==
  {h \in [{"Accept", "Content-Length", "Cookie", "X-Trace-ID"} -> {<<>>, <<"v">>, <<"">>}] :
     h["Accept"] # <<"">> /\ h["Content-Length"] # <<"">> /\ h["Cookie"] # <<"">>}

\* the header map of the inbound request: the names that have values
GivenHeader(h) == [k \in {n \in DOMAIN h : h[n] # <<>>} |-> h[k]]

\* what object o is, read through its references
View(o) ==
  [hdr |-> [k \in DOMAIN alias.hdr[o] |-> alias.slices[alias.hdr[o][k]]],
   url |-> alias.urls[alias.url[o]]]

InitAlias ==
  alias = [pc |-> "idle", given |-> <<>>, hdr |-> [o \in Objs |-> <<>>],
           slices |-> <<>>, url |-> [o \in Objs |-> "none"],
           urls |-> ("none" :> ""), sent |-> <<>>]

\* an inbound request with headers h has reached proxyAndMirrorRequest
AliasStart(h) ==
  [pc     |-> "start",
   given  |-> GivenHeader(h),
   hdr    |-> [o \in Objs |-> IF o = "in" THEN [k \in DOMAIN GivenHeader(h) |-> <<"in", k>>]
                                ELSE <<>>],
   slices |-> [i \in {<<"in", k>> : k \in DOMAIN GivenHeader(h)} |-> h[i[2]]],
   url    |-> [o \in Objs |-> IF o = "in" THEN "in" ELSE "none"],
   urls   |-> ("none" :> "") @@ ("in" :> "caller"),
   sent   |-> <<>>]

\* a faulty variant: the value is written into the slice the map refers to
HeaderSetInPlace(a, o, k, v) ==
  IF k \in DOMAIN a.hdr[o]
  THEN [a EXCEPT !.slices = [i \in DOMAIN @ |-> IF i = a.hdr[o][k] THEN <<v>> ELSE @[i]]]
  ELSE [a EXCEPT !.hdr[o] = (k :> <<o, k>>) @@ @,
                 !.slices = (<<o, k>> :> <<v>>) @@ @]

\* http.Header.Set: the map entry is replaced by a new one-value slice
HeaderSet(a, o, k, v) ==
  [a EXCEPT !.hdr[o] = (k :> <<o, k>>) @@ @,
            !.slices = (<<o, k>> :> <<v>>) @@ @]

\* http.NewRequestWithContext and the copy loop: a new URL object, a new
\* header map, and req.Header[k] = vv, which stores the reference the inbound
\* map holds; createRequest leaves Content-Length out
NewOutbound(a, o) ==
  LET keep == IF build = "create" THEN (DOMAIN a.hdr["in"]) \ {"Content-Length"}
              ELSE DOMAIN a.hdr["in"]
  IN [a EXCEPT !.hdr[o] = [k \in keep |-> a.hdr["in"][k]],
               !.url[o] = o,
               !.urls = (o :> (IF build = "create" THEN "caller" ELSE "upstream")) @@ @]

\* req.Header.Set("X-Trace-ID", traceID) of processRequest; in the first
\* revision handleRequest sets Scheme and Host of the request's URL
Stamp(a, o) ==
  IF build = "create"
  THEN [a EXCEPT !.urls = [i \in DOMAIN @ |-> IF i = a.url[o] THEN "upstream" ELSE @[i]]]
  ELSE HeaderSet(a, o, "X-Trace-ID",
                 IF "X-Trace-ID" \in DOMAIN a.given /\ a.given["X-Trace-ID"] # <<"">>
                 THEN a.given["X-Trace-ID"][1] ELSE "uuid")

aliasFrame ==
  UNCHANGED <<build, mirror, cfg, metricsErr, engineVars, runVars, gaugeVars, labelVars, conns>>

\* the request arrives
inboundArrives ==
  /\ alias.pc = "idle"
  /\ \E h \in AliasInputs : alias' = AliasStart(h)
  /\ aliasFrame

\* a leg creates its outbound request and copies the headers
newOutbound ==
  /\ alias.pc \in {"start", "p_sent"}
  /\ LET o == IF alias.pc = "start" THEN "p" ELSE "m"
     IN alias' = [NewOutbound(alias, o) EXCEPT !.pc = o \o "_built"]
  /\ aliasFrame

\* the leg finishes the request and hands it to the client; sent keeps what
\* the primary request was when it was handed over
stamp ==
  /\ alias.pc \in {"p_built", "m_built"}
  /\ LET o == IF alias.pc = "p_built" THEN "p" ELSE "m"
         a == Stamp(alias, o)
     IN alias' = [a EXCEPT !.pc = o \o "_sent",
                           !.sent = IF o = "p"
                                    THEN [k \in DOMAIN a.hdr["p"] |-> a.slices[a.hdr["p"][k]]]
                                    ELSE @]
  /\ aliasFrame

(***************************************************************************)
(* The counter of one class and the gauge that reports it, step by step:   *)
(* atomic.AddInt64, atomic.LoadInt64 and the calls inside RecordGauge are   *)
(* separate atomic operations of concurrent legs.                          *)
(***************************************************************************)
MaxLegs == 2

ConnLegs == 1..MaxLegs

\* the two RecordGauge revisions: an observable gauge that keeps the last
\* value, an up-down counter that is moved by the difference to it
GaugeImpls == {"observable", "updown"}

InitConns ==
  conns = [impl |-> "observable", counter |-> 0, value |-> 0, cumulative |-> 0,
           leg |-> [i \in ConnLegs |-> [pc |-> "add", by |-> 1, v |-> 0, prev |-> 0]]]

connsFrame ==
  UNCHANGED <<build, mirror, cfg, metricsErr, engineVars, runVars, gaugeVars, labelVars, alias>>

\* atomic.AddInt64(connsCounter, 1) before the round trip, and
\* atomic.AddInt64(connsCounter, -1) in the deferred function
connsAdd(i) ==
  /\ conns.leg[i].pc = "add"
  /\ conns' = [conns EXCEPT !.counter = @ + conns.leg[i].by, !.leg[i].pc = "load"]
  /\ connsFrame

\* recordActiveConnections: atomic.LoadInt64(connsCounter)
connsLoad(i) ==
  /\ conns.leg[i].pc = "load"
  /\ conns' = [conns EXCEPT !.leg[i].v = conns.counter,
                            !.leg[i].pc = IF conns.impl = "updown" THEN "prev" ELSE "store"]
  /\ connsFrame

\* RecordGauge, up-down counter: previousValue := getCurrentValue(gaugeKey)
gaugePrev(i) ==
  /\ conns.leg[i].pc = "prev"
  /\ conns' = [conns EXCEPT !.leg[i].prev = conns.value, !.leg[i].pc = "diff"]
  /\ connsFrame

\* RecordGauge, up-down counter: gaugeData.gauge.Add(ctx, value - previousValue)
gaugeAdd(i) ==
  /\ conns.leg[i].pc = "diff"
  /\ conns' = [conns EXCEPT !.cumulative = @ + conns.leg[i].v - conns.leg[i].prev,
                            !.leg[i].pc = "store"]
  /\ connsFrame

\* RecordGauge: the value is stored (gaugeData.value.Store, or
\* gauges.Store(gaugeKey+"_value", value)); the leg goes on to its round trip
\* or, after it, ends
gaugeStore(i) ==
  /\ conns.leg[i].pc = "store"
  /\ conns' = [conns EXCEPT !.value = conns.leg[i].v,
                            !.leg[i].pc = IF conns.leg[i].by = 1 THEN "do" ELSE "done"]
  /\ connsFrame

\* client.Do returns and the deferred function starts
roundTrip(i) ==
  /\ conns.leg[i].pc = "do"
  /\ conns' = [conns EXCEPT !.leg[i].pc = "add", !.leg[i].by = -1]
  /\ connsFrame

(***************************************************************************)
(* Specifications.                                                         *)
(***************************************************************************)
NextHandler ==
  \/ \E r \in ReqIds : Accept(r)
  \/ \E r \in ReqIds : handleProxy(r)
  \/ \E r \in ReqIds : sendRequestReturn(r)
  \/ \E r \in ReqIds : handlerReturn(r)

NextMirror ==
  \/ \E r \in ReqIds : mirrorStart(r)
  \/ \E r \in ReqIds : mirrorCreateFailed(r)
  \/ \E r \in ReqIds : mirrorReturn(r)

NextRun ==
  \/ Run
  \/ proxyListen
  \/ proxyServeReturn
  \/ challengeListen
  \/ challengeServeReturn
  \/ Signal
  \/ stopChallenge
  \/ stopChallengeReturn
  \/ stopProxy
  \/ stopReturn
  \/ RunReturn

\* Run has started the proxy listener of a server without certificates, the
\* challenge goroutine has ended, no signal has arrived
Serving ==
  /\ cfg = [certEnabled |-> FALSE, testMode |-> FALSE, tlsEnabled |-> FALSE]
  /\ proc = "alive"
  /\ runpc = "waiting"
  /\ wg = WgAdd - 1
  /\ proxyG = "serving"
  /\ challengeG = "exited"
  /\ shutdownG = "start"
  /\ proxyLis = "open"
  /\ challengeLis = "none"
  /\ stopErrs = {}
  /\ shutdownResult = NoShutdown
  /\ logged = FALSE
  /\ serverCtxDone = FALSE

\* the serving proxy, with and without a mirror, in each revision of the
\* controller
Init ==
  /\ build \in Builds
  /\ mirror \in BOOLEAN
  /\ metricsErr = {}
  /\ InitEngine
  /\ Serving
  /\ InitGauge
  /\ InitLabel
  /\ InitAlias
  /\ InitConns

Next == NextHandler \/ NextMirror

Spec == Init /\ [][Next]_vars

\* the process from the call of Run to its end, under every certificate
\* configuration, proxying without a mirror
InitProcess ==
  /\ build \in Builds
  /\ mirror = FALSE
  /\ metricsErr = {}
  /\ cfg \in Configs
  /\ InitEngine
  /\ InitRun
  /\ InitGauge
  /\ InitLabel
  /\ InitAlias
  /\ InitConns

NextProcess == NextRun \/ NextHandler

SpecRun == InitProcess /\ [][NextProcess]_vars

\* the serving proxy with a metrics collaborator whose calls fail, each kind
\* of call or none
InitMetrics ==
  /\ build \in Builds
  /\ mirror \in BOOLEAN
  /\ metricsErr \in SUBSET MetricOps
  /\ InitEngine
  /\ Serving
  /\ InitGauge
  /\ InitLabel
  /\ InitAlias
  /\ InitConns

SpecMetrics == InitMetrics /\ [][Next]_vars

\* the metrics collaborator of a serving proxy, its RecordGauge called by
\* the goroutines of the legs
InitRecordGauge ==
  /\ build = "perclass"
  /\ mirror = TRUE
  /\ metricsErr = {}
  /\ InitEngine
  /\ Serving
  /\ InitGauge
  /\ InitLabel
  /\ InitAlias
  /\ InitConns

NextGauge ==
  \/ \E c \in Callers, k \in GaugeKeys : RecordGaugeLoad(c, k)
  \/ \E c \in Callers : OnceDo(c)
  \/ \E c \in Callers : CreateGauge(c)
  \/ \E c \in Callers : StoreValue(c)

SpecGauge == InitRecordGauge /\ [][NextGauge]_vars

\* the metrics collaborator of a serving proxy, called with each path
InitRecordPath ==
  /\ build = "perclass"
  /\ mirror = TRUE
  /\ metricsErr = {}
  /\ InitEngine
  /\ Serving
  /\ InitGauge
  /\ npath \in LabelPaths
  /\ nlabel = NoLabel
  /\ InitAlias
  /\ InitConns

NextLabel == RecordRequest \/ RecordDuration

SpecLabel == InitRecordPath /\ [][NextLabel]_vars

\* the outbound requests of one inbound request, in each revision
InitOutbound ==
  /\ build \in Builds
  /\ mirror = TRUE
  /\ metricsErr = {}
  /\ InitEngine
  /\ Serving
  /\ InitGauge
  /\ InitLabel
  /\ InitAlias
  /\ InitConns

NextAlias == inboundArrives \/ newOutbound \/ stamp

SpecAlias == InitOutbound /\ [][NextAlias]_vars

\* the legs of one class of the per-class revision, with each RecordGauge
InitLegs ==
  /\ build = "perclass"
  /\ mirror = TRUE
  /\ metricsErr = {}
  /\ InitEngine
  /\ Serving
  /\ InitGauge
  /\ InitLabel
  /\ InitAlias
  /\ \E g \in GaugeImpls :
       conns = [impl |-> g, counter |-> 0, value |-> 0, cumulative |-> 0,
                leg |-> [i \in ConnLegs |-> [pc |-> "add", by |-> 1, v |-> 0, prev |-> 0]]]

NextConns ==
  \/ \E i \in ConnLegs : connsAdd(i)
  \/ \E i \in ConnLegs : connsLoad(i)
  \/ \E i \in ConnLegs : gaugePrev(i)
  \/ \E i \in ConnLegs : gaugeAdd(i)
  \/ \E i \in ConnLegs : gaugeStore(i)
  \/ \E i \in ConnLegs : roundTrip(i)

SpecConns == InitLegs /\ [][NextConns]_vars

(***************************************************************************)
(* Properties.                                                             *)
(***************************************************************************)
\* the round trip of a leg has been entered and has not returned
InFlight(pc) == pc \in {"wait", "refused"}

PrimaryInFlight == {r \in ReqIds : InFlight(hpc[r])}

MirrorInFlight == {r \in ReqIds : InFlight(mpc[r])}

\* the primary request of r was handed to the client
PrimarySent(r) == out[PLeg(r)] # NoOut

MirrorSent(r) == out[MLeg(r)] # NoOut

\* C1: for every inbound request whose body was read without error, the
\* request handed to the primary upstream carries exactly the inbound body
\* bytes (and their length), with and without a mirror
C1_PrimaryBodyIsInboundBody ==
  \A r \in ReqIds :
    (req[r] # 0 /\ In(r).readable /\ PrimarySent(r)) =>
      /\ out[PLeg(r)].body = In(r).body
      /\ out[PLeg(r)].contentLength = Len(In(r).body)

C1_Witness ==
  \E r \in ReqIds :
    /\ req[r] # 0 /\ In(r).body = <<"b1", "b2">>
    /\ res[PLeg(r)] = "ok"
    /\ out[PLeg(r)].body = <<"b1", "b2">>

\* C2: with a mirror configured, the request handed to the mirror upstream
\* has the method, path, query and body of the request handed to the primary
\* upstream for the same inbound request, and the same X-Trace-ID
C2_MirrorMatchesPrimary ==
  \A r \in ReqIds :
    (PrimarySent(r) /\ MirrorSent(r)) =>
      /\ out[MLeg(r)].method = out[PLeg(r)].method
      /\ out[MLeg(r)].path = out[PLeg(r)].path
      /\ out[MLeg(r)].query = out[PLeg(r)].query
      /\ out[MLeg(r)].body = out[PLeg(r)].body
      /\ HGet(out[MLeg(r)].hdr, "X-Trace-ID") = HGet(out[PLeg(r)].hdr, "X-Trace-ID")

\* C3: the return of a mirror round trip, whatever it returns, changes no
\* caller's response: status, headers and body stay as the primary leg left
\* them
C3_MirrorOutcomeInvisible ==
  [][\A r \in ReqIds : (InFlight(mpc[r]) /\ mpc'[r] = "done") => resp' = resp]_vars

C3_Witness ==
  \E r \in ReqIds :
    /\ hpc[r] = "exit"
    /\ res[PLeg(r)] = "ok"
    /\ res[MLeg(r)] \in {"err", "timeout"}
    /\ resp[r].status = UpStatus("ok")
    /\ resp[r].body = UpBody("ok")

\* C4: once every round trip that was entered has returned, each
\* active-connection counter is back at its initial value
C4_CountersReturn ==
  (PrimaryInFlight = {} /\ MirrorInFlight = {}) =>
    (proxyActiveConns = 0 /\ mirrorActiveConns = 0 /\ activeConns = 0)

C4_Witness ==
  /\ build \in {"perclass", "single"}
  /\ \A r \in ReqIds : hpc[r] = "done" /\ mpc[r] = "done"
  /\ \E r \in ReqIds : res[PLeg(r)] = "timeout"
  /\ \E r \in ReqIds : res[MLeg(r)] = "err"
  /\ proxyActiveConns = 0 /\ mirrorActiveConns = 0 /\ activeConns = 0

\* C5: in every state each active-connection counter is non-negative and is
\* the number of legs it counts that have incremented it and not yet
\* decremented it
C5_CountersCountLegs ==
  /\ proxyActiveConns >= 0 /\ mirrorActiveConns >= 0 /\ activeConns >= 0
  /\ build = "perclass" =>
       /\ proxyActiveConns = Cardinality(PrimaryInFlight)
       /\ mirrorActiveConns = Cardinality(MirrorInFlight)
  /\ build = "single" =>
       activeConns = Cardinality(PrimaryInFlight) + Cardinality(MirrorInFlight)

C5_Witness ==
  /\ build = "perclass"
  /\ proxyActiveConns = 1
  /\ mirrorActiveConns = 1
  /\ \E r \in ReqIds : hpc[r] = "wait" /\ mpc[r] = "none"

\* C6: a request whose handling panicked is answered with a 500 response
C6_PanicAnswered500 ==
  \A r \in ReqIds :
    hpc[r] = "panicked" => (resp[r].status = 500 /\ ~resp[r].aborted)

\* C7: a primary round trip that is in flight when the signal arrives is not
\* ended by the cancellation of the server context
C7_SignalKeepsRoundTrips ==
  \A r \in ReqIds : res[PLeg(r)] # "canceled"

\* C8: Run has returned only if the three goroutines have ended, and the
\* completion is logged only if Stop closed every listener the server owns
\* and returned no error
C8_RunJoinsAndLogsAfterStop ==
  /\ runpc = "returned" =>
       (proxyG = "exited" /\ challengeG = "exited" /\ shutdownG = "exited")
  /\ logged =>
       /\ stopErrs = {}
       /\ proxyLis = "closed"
       /\ challengeServerSet => challengeLis = "closed"

C8_Witness ==
  /\ runpc = "returned"
  /\ logged
  /\ challengeLis = "closed"
  /\ \E r \in ReqIds : hpc[r] = "done"

\* the caller of r was answered with a JSON error of status code and nothing
\* of the upstream's response
ErrorOnly(r, code, msg) ==
  /\ resp[r].status = code
  /\ resp[r].body = <<"{error:" \o msg \o "}">>
  /\ DOMAIN resp[r].hdr = {"Content-Type"}
  /\ HGet(resp[r].hdr, "Content-Type") = JSONType

\* C9: when the primary round trip failed the caller gets 502 and a JSON
\* error, when the upstream's body could not be read the caller gets 500, and
\* in both cases nothing of the upstream's response
C9_PrimaryErrorResponses ==
  \A r \in ReqIds :
    (hpc[r] \in {"exit", "done"} /\ res[PLeg(r)] # "") =>
      /\ IsErr(res[PLeg(r)]) => ErrorOnly(r, 502, "proxy error")
      /\ res[PLeg(r)] = "unreadable" => ErrorOnly(r, 500, "failed to read response")

Durations(l) == {i \in DOMAIN events[l] : events[l][i].op = "RecordDuration"}

\* C10: a leg whose round trip has returned has recorded exactly one
\* duration, and one of status class 5xx when the round trip failed
C10_OneDurationPerRoundTrip ==
  \A l \in Legs :
    res[l] # "" =>
      /\ Cardinality(Durations(l)) = 1
      /\ IsErr(res[l]) => \A i \in Durations(l) : events[l][i].class = "5xx"

\* request r has caused no outbound request, no mirror goroutine, no metric
\* call of a leg and so no change of a counter
NothingForwarded(r) ==
  /\ ~PrimarySent(r) /\ ~MirrorSent(r)
  /\ mpc[r] = "none"
  /\ events[PLeg(r)] = <<>> /\ events[MLeg(r)] = <<>>
  /\ res[PLeg(r)] = "" /\ res[MLeg(r)] = ""

\* the handler of r has run to its end
Handled(r) == hpc[r] \in {"exit", "done"}

\* C11: a request whose path starts with /metrics is answered by the scrape
\* handler, and causes no outbound request to the target or the mirror and no
\* change of a counter
C11_MetricsNotForwarded ==
  \A r \in ReqIds :
    (req[r] # 0 /\ IsPrefix(MetricsPrefix, In(r).path)) =>
      /\ NothingForwarded(r)
      /\ Handled(r) => \E i \in DOMAIN resp[r].body : resp[r].body[i] = "scrape"

C11_Witness ==
  \E r \in ReqIds :
    /\ req[r] # 0 /\ In(r).path = MetricsPrefix
    /\ hpc[r] = "done"
    /\ resp[r].status = 200 /\ resp[r].body = <<"scrape">>
    /\ mirror

\* C12: when reading the inbound body fails the caller gets status 500, no
\* request goes to the primary upstream, no mirror leg is spawned and no
\* counter changes
C12_UnreadableBodyAborts ==
  \A r \in ReqIds :
    (req[r] # 0 /\ Route(In(r)) = "proxy" /\ ~In(r).readable) =>
      /\ NothingForwarded(r)
      /\ Handled(r) =>
           /\ resp[r].status = 500
           /\ \E i \in DOMAIN resp[r].body :
                resp[r].body[i] = "{error:failed to read request}"

C12_Witness ==
  \E r \in ReqIds :
    /\ mirror
    /\ req[r] # 0 /\ ~In(r).readable
    /\ hpc[r] = "done"
    /\ resp[r].status = 500
    /\ resp[r].body = <<"{error:failed to read request}">>

\* the path of inbound request in is one handleProxy keeps for itself
Intercepted(in) == IsPrefix(AcmePrefix, in.path) \/ IsPrefix(MetricsPrefix, in.path)

\* the scrape handler has answered r
Scraped(r) == \E i \in DOMAIN resp[r].body : resp[r].body[i] = "scrape"

\* C13: the router invokes one handler for a request (the scrape handler and
\* the forwarding engine never both), and a request that is not intercepted
\* and whose method the router does not know gets status 405, an empty body,
\* no outbound request and no mirror leg
C13_OneHandlerOr405 ==
  \A r \in ReqIds :
    Handled(r) =>
      /\ Scraped(r) => NothingForwarded(r)
      /\ (~Intercepted(In(r)) /\ In(r).method \notin {"GET", "POST", "PUT", "DELETE", "OPTIONS"}) =>
           /\ resp[r].status = 405
           /\ resp[r].body = <<>>
           /\ NothingForwarded(r)

\* C14: an OPTIONS request on a path that is not intercepted is forwarded to
\* the target upstream
C14_OptionsForwarded ==
  \A r \in ReqIds :
    (Handled(r) /\ In(r).method = "OPTIONS" /\ ~Intercepted(In(r)) /\ In(r).readable) =>
      PrimarySent(r)

\* C15: a request on the proxy listener whose path starts with
\* /.well-known/acme-challenge/ is served by the challenge handler of the
\* certificate provider and never reaches the forwarding engine
C15_ChallengeServed ==
  \A r \in ReqIds :
    (req[r] # 0 /\ IsPrefix(AcmePrefix, In(r).path)) =>
      /\ NothingForwarded(r)
      /\ hpc[r] # "panicked"
      /\ Handled(r) => \E i \in DOMAIN resp[r].body : resp[r].body[i] = "challenge"

\* C16: the mirror request is bound to a context of its own, not to the
\* context of an inbound request, and no mirror round trip is ended or
\* refused because the context of an inbound request is done
C16_MirrorOwnContext ==
  \A r \in ReqIds :
    MirrorSent(r) =>
      /\ out[MLeg(r)].ctx = 0
      /\ res[MLeg(r)] \notin {"canceled", "refused"}

\* the primary leg of r wrote its response or its error response
PrimaryWritten(r) ==
  /\ resp[r].written
  /\ \E i \in DOMAIN resp[r].body :
       resp[r].body[i] \in {"{error:proxy error}", "{error:failed to read response}", Last(UpBody("ok"))}

\* C17: when the handler of a forwarded request is about to return, the
\* primary response or its error response is already written, and the handler
\* can return whatever the state of the mirror leg is
C17_WrittenBeforeReturnNoJoin ==
  \A r \in ReqIds :
    /\ (hpc[r] \in {"exit", "done"} /\ res[PLeg(r)] # "") => PrimaryWritten(r)
    /\ (hpc[r] = "exit" /\ proc = "alive") => ENABLED handlerReturn(r)

C17_Witness ==
  \E r \in ReqIds :
    /\ hpc[r] = "done"
    /\ mpc[r] = "wait"
    /\ res[PLeg(r)] = "ok"
    /\ resp[r].written /\ resp[r].body = UpBody("ok")

\* what the router and the primary leg of r write to the response of r, from
\* a fresh writer: the one response of the inbound request
OwnResponse(r) ==
  LET in    == In(r)
      route == Route(in)
  IN CASE route = "metrics"    -> WData(NewWriter, 200, "text/plain", <<"scrape">>)
       [] route = "notAllowed" -> WStatus(NewWriter, 405)
       [] route = "challenge"  -> WData(NewWriter, 200, "text/plain", <<"challenge">>)
       [] OTHER ->
            IF ~ReadAllOk(in) THEN WJSON(NewWriter, 500, "failed to read request")
            ELSE IF ~NewRequestOk(in) THEN WJSON(NewWriter, 500, "failed to create request")
            ELSE sendRequestWrite(NewWriter, proxyRequest, res[PLeg(r)], traceID[r])

\* C18: the mirror leg writes nothing to a caller's response on any of its
\* exit paths: the response of a handled request is the one response its
\* router and primary leg wrote
C18_MirrorNeverWrites ==
  \A r \in ReqIds :
    Handled(r) =>
      [resp[r] EXCEPT !.written = TRUE] = [OwnResponse(r) EXCEPT !.written = TRUE]

\* the lifecycle state of the server: 1 Created, 2 Running, 3 ShuttingDown,
\* 4 Stopped
Lifecycle ==
  IF runpc = "returned" \/ proc # "alive" THEN 4
  ELSE IF runpc = "init" THEN 1
  ELSE IF serverCtxDone \/ shutdownG \notin {"none", "start"} THEN 3
  ELSE 2

\* C19: the lifecycle never goes back to an earlier state, and ShuttingDown
\* is entered only from Running and only by the step in which the shutdown
\* goroutine receives one of the signals it is notified of
C19_LifecycleForward ==
  [][/\ Lifecycle' >= Lifecycle
     /\ (Lifecycle' = 3 /\ Lifecycle # 3) => (Lifecycle = 2 /\ Signal)]_vars

C19_Witness ==
  /\ Lifecycle = 4
  /\ runpc = "returned"
  /\ serverCtxDone
  /\ stopErrs = {}
  /\ \A r \in ReqIds : hpc[r] = "idle"

\* the goroutine of a listener has ended though its listener was never opened
\* and never shut down: ListenAndServe returned an error other than
\* ErrServerClosed
ProxyListenFailed == proxyG = "exited" /\ proxyLis = "none"

ChallengeListenFailed == cfg.certEnabled /\ challengeG = "exited" /\ challengeLis = "none"

\* C20: a listen error of the proxy listener or of the challenge listener,
\* other than the server-closed error, ends the process: no process stays
\* alive past such an error
C20_ListenErrorsFatal ==
  proc = "alive" => (~ProxyListenFailed /\ ~ChallengeListenFailed)

(***************************************************************************)
(* Stop and its errors.                                                    *)
(***************************************************************************)
\* Stop has run to its end: the Shutdown of the proxy server has returned
StopReturned == shutdownResult["proxy"] # "none"

\* the listeners whose Shutdown returned an error
ShutdownFailed == {l \in Listeners : shutdownResult[l] = "err"}

\* C21: once Stop has returned, Shutdown has been called on every listener
\* the server owns, whatever the Shutdown of the other one returned; the
\* errors Stop reports are exactly the failures of the listeners; the
\* shutdown goroutine ends in Fatalf exactly when there is one, and logs the
\* completion only when there is none
C21_StopAggregatesAndFatal ==
  /\ StopReturned =>
       /\ proxyLis = "closed"
       /\ challengeServerSet =>
            (shutdownResult["challenge"] # "none" /\ challengeLis = "closed")
       /\ stopErrs = ShutdownFailed
       /\ StopErr(stopErrs) <=> ShutdownFailed # {}
       /\ proc = "fatal" <=> ShutdownFailed # {}
  /\ logged => (StopReturned /\ ShutdownFailed = {})

\* both Shutdown calls failed: the second was made after the first failed
C21_Witness ==
  /\ StopReturned
  /\ ShutdownFailed = Listeners
  /\ proc = "fatal"

(***************************************************************************)
(* The response of a successful primary leg.                               *)
(***************************************************************************)
\* the primary round trip of r succeeded and the upstream's body was read
PrimarySucceeded(r) == hpc[r] \in {"exit", "done"} /\ res[PLeg(r)] = "ok"

\* C22: when the primary round trip succeeded and the upstream's body was
\* read, the caller's response has the upstream's status code, the upstream's
\* body bytes and nothing more, X-Proxied-By with the service name and, in
\* the revisions that have a trace id, X-Trace-ID with the id of the request
C22_SuccessVerbatim ==
  \A r \in ReqIds :
    PrimarySucceeded(r) =>
      /\ resp[r].status = UpStatus("ok")
      /\ resp[r].body = UpBody("ok")
      /\ HGet(resp[r].hdr, "X-Proxied-By") = ServiceName
      /\ build \in TracedBuilds => resp[r].hdr["X-Trace-ID"] = <<traceID[r]>>

\* the values of header k in h
Values(h, k) == IF k \in DOMAIN h THEN {h[k][i] : i \in DOMAIN h[k]} ELSE {}

\* the names the leg sets itself after copying the upstream's headers
InjectedNames == {"X-Proxied-By", "X-Trace-ID"}

\* C23: on a successful primary leg every value of every header the upstream
\* sent, all the values of a multi-valued header included, is in the caller's
\* response, except under the two names the leg sets itself
C23_EveryHeaderValueCopied ==
  \A r \in ReqIds :
    PrimarySucceeded(r) =>
      \A k \in (DOMAIN UpHeader("ok")) \ InjectedNames :
        Values(UpHeader("ok"), k) \subseteq Values(resp[r].hdr, k)

(***************************************************************************)
(* The headers and the length of an outbound request.                      *)
(***************************************************************************)
\* C24: every outbound request, primary or mirror, has every header of its
\* inbound request except Content-Length, has no Content-Length header copied
\* from the inbound request, and has the length of the buffered body as its
\* content length, which stays unset (0) for an empty body
C24_HeadersWithoutContentLength ==
  \A l \in Legs :
    out[l] # NoOut =>
      LET in == In(l[1])
      IN /\ \A k \in (DOMAIN in.hdr) \ {"Content-Length"} :
              k \in DOMAIN out[l].hdr /\ out[l].hdr[k] = in.hdr[k]
         /\ "Content-Length" \notin DOMAIN out[l].hdr
         /\ out[l].contentLength = Len(bodyBytes[l[1]])

(***************************************************************************)
(* The trace id.                                                           *)
(***************************************************************************)
\* the forwarding engine has handled r, in a revision that has trace ids
Traced(r) == build \in TracedBuilds /\ Handled(r) /\ Route(In(r)) = "proxy"

\* C25: the trace id of a forwarded request is the first value of its
\* X-Trace-ID header when there is a non-empty one and a generated id
\* otherwise, and every response the forwarding engine has written for the
\* request has that id as its X-Trace-ID header
C25_TraceIdEchoed ==
  \A r \in ReqIds :
    Traced(r) =>
      /\ traceID[r] = IF Values(In(r).hdr, "X-Trace-ID") \ {""} # {}
                      THEN In(r).hdr["X-Trace-ID"][1]
                      ELSE UUID(r)
      /\ resp[r].written => Values(resp[r].hdr, "X-Trace-ID") = {traceID[r]}

(***************************************************************************)
(* Errors of the metrics collaborator.                                     *)
(***************************************************************************)
\* r is a request the engine forwards: routed to the controller, body read,
\* outbound request created
Forwardable(r) == Route(In(r)) = "proxy" /\ ReadAllOk(In(r)) /\ NewRequestOk(In(r))

\* C26: whichever calls of the metrics collaborator fail, request handling
\* is what the request and the upstream's behaviour alone determine: the
\* counters count the legs in flight, a forwardable request is sent to the
\* primary upstream as built from the inbound request, and the caller gets
\* the upstream's response or the error response of the primary leg
C26_MetricsErrorsInvisible ==
  /\ proxyActiveConns =
       (IF build = "perclass" THEN Cardinality(PrimaryInFlight) ELSE 0)
  /\ mirrorActiveConns =
       (IF build = "perclass" THEN Cardinality(MirrorInFlight) ELSE 0)
  /\ activeConns =
       (IF build = "single"
        THEN Cardinality(PrimaryInFlight) + Cardinality(MirrorInFlight) ELSE 0)
  /\ \A r \in ReqIds :
       Handled(r) =>
         /\ PrimarySent(r) <=> Forwardable(r)
         /\ PrimarySent(r) =>
              /\ out[PLeg(r)] = Outbound(In(r), "target", In(r).body, traceID[r], r)
              /\ PrimaryWritten(r)
              /\ ~mirror =>
                   /\ res[PLeg(r)] = "ok" =>
                        (resp[r].status = UpStatus("ok") /\ resp[r].body = UpBody("ok"))
                   /\ IsErr(res[PLeg(r)]) => ErrorOnly(r, 502, "proxy error")
                   /\ res[PLeg(r)] = "unreadable" =>
                        ErrorOnly(r, 500, "failed to read response")

\* every call of the collaborator fails, a failed call was logged, and the
\* caller has the upstream's response
C26_Witness ==
  /\ metricsErr = MetricOps
  /\ \E r \in ReqIds :
       /\ hpc[r] = "done"
       /\ res[PLeg(r)] = "ok"
       /\ resp[r].status = UpStatus("ok") /\ resp[r].body = UpBody("ok")
       /\ \E i \in DOMAIN events[PLeg(r)] : events[PLeg(r)][i].op = "Errorw"
       /\ mpc[r] = "done"

(***************************************************************************)
(* The order of the metric calls of a leg.                                 *)
(***************************************************************************)
\* the positions in the history of leg l of the calls of op
Calls(l, op) == {i \in DOMAIN events[l] : events[l][i].op = op}

\* C27: for each leg whose round trip was invoked, the request-received
\* counter was recorded before the invocation under the metric name of the
\* leg's class, and once the round trip has completed the duration and the
\* status-class counter are recorded after it, under that name
C27_ReceivedBeforeDurationAfter ==
  \A l \in Legs :
    \A d \in Calls(l, "Do") :
      /\ \E i \in Calls(l, "RecordRequest") :
           i < d /\ events[l][i].name = MetricName(l[2]) /\ events[l][i].class = ""
      /\ res[l] # "" =>
           /\ \E i \in Calls(l, "RecordDuration") :
                i > d /\ events[l][i].name = MetricName(l[2])
           /\ \E i \in Calls(l, "RecordRequest") :
                i > d /\ events[l][i].name = MetricName(l[2]) /\ events[l][i].class # ""

(***************************************************************************)
(* The order of the Shutdown calls of Stop.                                *)
(***************************************************************************)
\* challengeServer.Shutdown has been called and has not returned
ChallengeShutdownRunning == proc = "alive" /\ shutdownG = "challengeDraining"

\* C28: the shutdown of the proxy listener does not wait for the shutdown of
\* the challenge listener: while the latter has not returned, the former
\* has started or can start
C28_ShutdownsConcurrent ==
  ChallengeShutdownRunning => (proxyLis = "closed" \/ ENABLED stopProxy)

(***************************************************************************)
(* The gauge registry.                                                     *)
(***************************************************************************)
\* caller c is inside RecordGauge, past LoadOrStore
InRecordGauge(c) == gpc[c] # "idle"

\* C29: under every interleaving of concurrent RecordGauge calls the meter
\* creates at most one gauge instrument per key, and every caller works on
\* the one entry the registry holds for its key
C29_GaugeCreatedOnce ==
  /\ \A k \in GaugeKeys : instruments[k] <= 1
  /\ \A c \in Callers : InRecordGauge(c) => gdata[c] = gauges[gkey[c]]

\* two callers are in RecordGauge for one key at once, the second on the
\* entry the first allocated, and the instrument has been created
C29_Witness ==
  \E c1, c2 \in Callers :
    /\ c1 # c2
    /\ InRecordGauge(c1) /\ InRecordGauge(c2)
    /\ gkey[c1] = gkey[c2]
    /\ gdata[c1] = NewEntry(c1, 1) /\ gdata[c2] = NewEntry(c1, 1)
    /\ instruments[gkey[c1]] = 1

(***************************************************************************)
(* Path labels.                                                            *)
(***************************************************************************)
\* C30: normalizePath maps every path to one of "/", "/node", "/streams",
\* "/other": with the leading "/api/v0/" removed, to "/node" exactly when
\* the part before the first "/" is "node", to "/streams" exactly when it is
\* "streams", to "/other" otherwise; and the one path label RecordRequest
\* and RecordDuration record is the normalizePath of the path they are given
C30_PathLabelsNormalized ==
  LET rest  == IF IsPrefix(ApiPrefix, npath)
               THEN SubSeq(npath, Len(ApiPrefix) + 1, Len(npath)) ELSE npath
      first == CHOOSE n \in 0..Len(rest) :
                 /\ \A i \in 1..n : rest[i] # "/"
                 /\ n < Len(rest) => rest[n + 1] = "/"
      seg   == SubSeq(rest, 1, first)
      label == normalizePath(npath)
  IN /\ label \in {<<"/">>, <<"/">> \o SegNode, <<"/">> \o SegStreams,
                    <<"/", "o", "t", "h", "e", "r">>}
     /\ label = <<"/">> \o SegNode <=> seg = SegNode
     /\ label = <<"/">> \o SegStreams <=> seg = SegStreams
     /\ label = <<"/", "o", "t", "h", "e", "r">> <=> seg \notin {SegNode, SegStreams}
     /\ nlabel # NoLabel => AttrValue(nlabel.attrs, "path") = {label}

\* RecordDuration was given /api/v0/streams/x and recorded /streams
C30_Witness ==
  /\ npath = ApiPrefix \o SegStreams \o <<"/">> \o <<"x">>
  /\ nlabel.op = "RecordDuration"
  /\ AttrValue(nlabel.attrs, "path") = {<<"/">> \o SegStreams}

(***************************************************************************)
(* Accounting per class.                                                   *)
(***************************************************************************)
\* C31: in the revisions that count connections, the counter the primary
\* legs change is the number of primary legs in flight and the counter the
\* mirror legs change is the number of mirror legs in flight: no leg moves
\* the counter of the other class, and a leg reports the gauge of its own
\* class only
C31_AccountingPerClass ==
  LET proxyCounter  == IF build = "perclass" THEN proxyActiveConns ELSE activeConns
      mirrorCounter == IF build = "perclass" THEN mirrorActiveConns ELSE activeConns
  IN build \in {"perclass", "single"} =>
       /\ proxyCounter = Cardinality(PrimaryInFlight)
       /\ mirrorCounter = Cardinality(MirrorInFlight)
       /\ \A l \in Legs : \A i \in Calls(l, "RecordGauge") : events[l][i].name = l[2]

(***************************************************************************)
(* Aliasing between the inbound and the outbound requests.                 *)
(***************************************************************************)
\* C32: no outbound request holds a reference the inbound request or the
\* other outbound request holds (as stated: the requests never alias)
C32_NeverAliases ==
  \A o1, o2 \in Objs :
    o1 # o2 =>
      {alias.hdr[o1][k] : k \in DOMAIN alias.hdr[o1]}
        \cap {alias.hdr[o2][k] : k \in DOMAIN alias.hdr[o2]} = {}

\* C32, amended: whatever a leg sets on its outbound request, the inbound
\* request keeps the headers and the URL it arrived with, and the primary
\* request keeps what it was sent with while the mirror request is built
C32_SettingLeavesOthersUnchanged ==
  alias.pc # "idle" =>
    /\ View("in") = [hdr |-> alias.given, url |-> "caller"]
    /\ alias.pc \in {"p_sent", "m_built", "m_sent"} =>
         View("p") = [hdr |-> alias.sent, url |-> "upstream"]

\* both legs are built, the trace id was generated for an inbound request
\* whose X-Trace-ID is empty, and the other headers are shared by reference
C32_Witness ==
  /\ alias.pc = "m_sent"
  /\ build = "perclass"
  /\ "X-Trace-ID" \in DOMAIN alias.given /\ alias.given["X-Trace-ID"] = <<"">>
  /\ View("p").hdr["X-Trace-ID"] = <<"uuid">>
  /\ "Cookie" \in DOMAIN alias.given
  /\ alias.hdr["p"]["Cookie"] = alias.hdr["in"]["Cookie"]
  /\ alias.hdr["m"]["Cookie"] = alias.hdr["in"]["Cookie"]

C34_MirrorBuiltFromOwnInbound ==
  \A r \in ReqIds :
    MirrorSent(r) =>
      LET o == Outbound(In(r), "mirror", bodyBytes[r], traceID[r], 0)
      IN /\ out[MLeg(r)].method = o.method
         /\ out[MLeg(r)].path = o.path
         /\ out[MLeg(r)].query = o.query
         /\ out[MLeg(r)].hdr = o.hdr

(***************************************************************************)
(* The gauge against the counter.                                          *)
(***************************************************************************)
\* C35: whenever the counter of the class is 0 and no leg is inside a
\* recordActiveConnections call, the value last reported to the gauge is 0
C35_GaugeZeroWhenIdle ==
  (conns.counter = 0 /\ \A i \in ConnLegs : conns.leg[i].pc \in {"add", "do", "done"}) =>
    conns.value = 0

\* C36: with the up-down counter, once no call of RecordGauge is running,
\* the sum of the differences added to the instrument is the value stored last
C36_UpDownSumIsLastValue ==
  (conns.impl = "updown" /\ \A i \in ConnLegs : conns.leg[i].pc \in {"add", "do", "done"}) =>
    conns.cumulative = conns.value

(***************************************************************************)
(* The status in the metrics against the status the caller got.            *)
(***************************************************************************)
\* C37: every status code and status class that the primary leg of a request
\* hands to the metrics collaborator is the status written to the caller
C37_MetricsStatusIsCallerStatus ==
  \A r \in ReqIds :
    (Handled(r) /\ res[PLeg(r)] # "") =>
      \A i \in DOMAIN events[PLeg(r)] :
        /\ events[PLeg(r)][i].code # 0 => events[PLeg(r)][i].code = resp[r].status
        /\ events[PLeg(r)][i].class # "" =>
             events[PLeg(r)][i].class = StatusClass(resp[r].status)

(***************************************************************************)
(* The challenge server, where NewServer built none.                       *)
(***************************************************************************)
\* C38: a server that NewServer built without a challenge server never opens
\* the challenge listener, never calls Shutdown on it, and neither Run nor
\* Stop touches the absent server (which would end the process in a panic)
C38_ChallengeOnlyIfConstructed ==
  ~challengeServerSet =>
    /\ challengeLis = "none"
    /\ shutdownResult["challenge"] = "none"
    /\ proc # "crashed"
====
